---------------------------- MODULE Spec2Model ----------------------------
(***************************************************************************)
(* A model of src/hosts_generator.py: the concurrent resolution engine     *)
(* (resolve_domains, resolve_domain_wrapper), the backend chain            *)
(* (resolve_domain), the similar-domain heuristic (find_similar_domains)   *)
(* and the variant prober (try_domain_variants).                           *)
(*                                                                         *)
(* The specifications:                                                     *)
(*   Spec        - resolve_domains(domains, timeout, max_workers) as the   *)
(*                 source has it, called up to MaxRuns times in a row;     *)
(*   SpecLive    - Spec with every thread fairly scheduled;                *)
(*   SpecWrapper - resolve_domain_wrapper run by a bounded pool of threads *)
(*                 on argument tuples of its declared type                 *)
(*                 Tuple[str, int, int, dict, Lock];                       *)
(*   SpecTimeout - resolve_domain run line by line by several threads;     *)
(*   SpecFind    - the pure function find_similar_domains on inputs drawn  *)
(*                 from bounded sets;                                      *)
(*   SpecDedup   - main's removal of duplicates;                           *)
(*   SpecSizing  - the choice of timeout and pool size in main and in      *)
(*                 resolve_domains;                                        *)
(*   SpecProbe   - resolve_domain and try_domain_variants called on their  *)
(*                 own, for names as read_domains passes them on.          *)
(*                                                                         *)
(* Python strings are sequences of one-character strings, so that split,   *)
(* lower, startswith and the substring test are computed, not assumed.     *)
(***************************************************************************)
EXTENDS Integers, Sequences, FiniteSets, TLC

VARIABLES
    has_dnspython,       \* HAS_DNSPYTHON, fixed at import time
    progress_counter,    \* the global dict {'success','failed','total'}
    progress_lock,       \* holder of the global progress_lock, or Free
    default_timeout,     \* process-wide socket default timeout, in half seconds
    domains,             \* argument of resolve_domains
    timeout,             \* argument of resolve_domains
    max_workers,         \* argument of resolve_domains / size of the pool
    successful_domains,  \* the registry: an insertion-ordered dict, as a sequence of <<domain, ip>>
    successful_lock,     \* holder of the registry lock, or Free
    domain_args,         \* the argument tuple of every task
    future,              \* the state of every submitted future
    task,                \* the frame of every resolve_domain_wrapper call
    results_dict,        \* index -> <<domain, ip>>, filled by the collecting loop
    main,                \* the frame of resolve_domains
    history,             \* how every finished call of resolve_domains ended
    last_call,           \* the resolve_domain call the latest step made, if it made one
    find,                \* the frame of a find_similar_domains call (SpecFind)
    use_similar_fallback, \* argument of resolve_domains
    cli,                 \* the frame of main() (SpecMain)
    call                 \* the frames of resolve_domain calls run line by line (SpecTimeout)

vars == << has_dnspython, progress_counter, progress_lock, default_timeout,
           domains, timeout, max_workers, successful_domains, successful_lock,
           domain_args, future, task, results_dict, main, history, last_call, find, use_similar_fallback, cli, call >>

\* Python's None where an address or a list is expected; the code's truth tests
\* (if ip, if not ip, if similar) treat None and the empty value alike
None == << >>

\* no exception
NoException == "None"

\* who holds a threading.Lock
Free == << "free" >>
MainThread == << "main" >>
Worker(i) == << "worker", i >>

\* socket.getdefaulttimeout() is None
NoTimeout == 0

-----------------------------------------------------------------------------
(* Bounds of the model                                                     *)

MaxDomains == 3      \* longest domain list handed to resolve_domains
MaxWorkers == 2      \* largest max_workers
MaxRuns == 2         \* calls of resolve_domains in a row
MaxTasks == 2        \* wrapper calls in SpecWrapper
MaxRegistry == 4     \* longest registry snapshot in SpecFind
MaxSuggestionsArg == 3  \* largest max_suggestions in SpecFind
MaxInput == 3        \* longest domain list read from the file in SpecDedup

-----------------------------------------------------------------------------
(* Python string operations                                                *)

Min(a, b) == IF a <= b THEN a ELSE b
Max(a, b) == IF a >= b THEN a ELSE b
Abs(a) == IF a >= 0 THEN a ELSE 0 - a

\* str.lower(), for the letters the model's strings use
LowerChar(c) ==
    CASE c = "S" -> "s" [] c = "H" -> "h" [] c = "O" -> "o" [] c = "P" -> "p"
      [] c = "C" -> "c" [] c = "M" -> "m" [] c = "N" -> "n" [] c = "E" -> "e"
      [] c = "T" -> "t" [] c = "R" -> "r" [] c = "G" -> "g"
      [] OTHER -> c

Lower(s) == [i \in 1..Len(s) |-> LowerChar(s[i])]

\* s.split('.'): every dot separates, empty parts are kept
RECURSIVE SplitFrom(_, _, _, _)
SplitFrom(s, i, cur, acc) ==
    IF i > Len(s) THEN Append(acc, cur)
    ELSE IF s[i] = "." THEN SplitFrom(s, i + 1, << >>, Append(acc, cur))
    ELSE SplitFrom(s, i + 1, Append(cur, s[i]), acc)

Split(s) == SplitFrom(s, 1, << >>, << >>)

\* '.'.join(parts)
RECURSIVE Join(_)
Join(parts) ==
    IF Len(parts) = 0 THEN << >>
    ELSE IF Len(parts) = 1 THEN parts[1]
    ELSE parts[1] \o <<".">> \o Join(Tail(parts))

\* parts[:-1]
AllButLast(parts) == SubSeq(parts, 1, Len(parts) - 1)

\* a.startswith(b)
StartsWith(a, b) == Len(b) <= Len(a) /\ SubSeq(a, 1, Len(b)) = b

\* b in a
Contains(a, b) ==
    \E k \in 0..(Len(a) - Len(b)) : SubSeq(a, k + 1, k + Len(b)) = b

\* s[:n]
Prefix(s, n) ==
    IF n >= 0 THEN SubSeq(s, 1, Min(n, Len(s)))
    ELSE SubSeq(s, 1, Max(0, Len(s) + n))

-----------------------------------------------------------------------------
(* The strings of the model                                                *)

shop_com   == << "s","h","o","p",".","c","o","m" >>
shop_net   == << "s","h","o","p",".","n","e","t" >>
SHOP_ORG   == << "S","H","O","P",".","O","R","G" >>
shopa_com  == << "s","h","o","p","a",".","c","o","m" >>
shopb_com  == << "s","h","o","p","b",".","c","o","m" >>
eshop_com  == << "e","s","h","o","p",".","c","o","m" >>
localhost  == << "l","o","c","a","l","h","o","s","t" >>
a_shop_net == << "a",".","s","h","o","p",".","n","e","t" >>
shops_com  == << "s","h","o","p","s",".","c","o","m" >>
SHOP_COM   == << "S","H","O","P",".","C","O","M" >>
Shop_Com   == << "S","h","o","p",".","C","o","m" >>

ip_1_2_3_4    == << "1",".","2",".","3",".","4" >>
ip_5_6_7_8    == << "5",".","6",".","7",".","8" >>
ip_9_9_9_9    == << "9",".","9",".","9",".","9" >>
ip_127_1      == << "1","2","7",".","1" >>            \* accepted by inet_aton, no dotted quad
ip_1_2_3_4_x  == << "1",".","2",".","3",".","4"," ","x" >>  \* accepted by inet_aton (trailing text)
ip_999_1_1_1  == << "9","9","9",".","1",".","1",".","1" >>  \* rejected by inet_aton

-----------------------------------------------------------------------------
(* find_similar_domains                                                    *)

MaxSearch == 1000

DIFFERENT_TLD == "different TLD"
SIMILAR_NAME  == "similar name"
PARTIAL_MATCH == "partial match"

\* the class of one registry entry against the failing domain's base name and
\* TLD: the if / elif chain of the loop body, without its tests of len(suggestions)
MatchKind(base_name, tld, success_domain) ==
    LET success_parts == Split(Lower(success_domain))
        success_base  == Join(AllButLast(success_parts))
        success_tld   == success_parts[Len(success_parts)]
    IN  IF Len(success_parts) < 2 THEN "skip"
        ELSE IF base_name = success_base /\ tld # success_tld THEN DIFFERENT_TLD
        ELSE IF base_name # success_base THEN
            IF (StartsWith(base_name, success_base) \/ StartsWith(success_base, base_name))
               /\ Abs(Len(base_name) - Len(success_base)) <= 3
            THEN SIMILAR_NAME
            ELSE IF Abs(Len(base_name) - Len(success_base)) <= 5
                    /\ (Contains(success_base, base_name) \/ Contains(base_name, success_base))
            THEN PARTIAL_MATCH
            ELSE "none"
        ELSE "none"

\* the for loop over successful_domains.items(), from entry k on
RECURSIVE ScanFrom(_, _, _, _, _, _, _)
ScanFrom(base_name, tld, reg, max_suggestions, k, checked, suggestions) ==
    IF k > Len(reg) \/ checked >= Min(MaxSearch, Len(reg))
    THEN Prefix(suggestions, max_suggestions)
    ELSE
        LET kind == MatchKind(base_name, tld, reg[k][1])
        IN  IF kind = DIFFERENT_TLD THEN
                LET s2 == << <<reg[k][1], reg[k][2], kind>> >> \o suggestions
                IN  IF Len(s2) >= max_suggestions
                    THEN Prefix(s2, max_suggestions)
                    ELSE ScanFrom(base_name, tld, reg, max_suggestions, k + 1, checked + 1, s2)
            ELSE IF kind \in {SIMILAR_NAME, PARTIAL_MATCH} /\ Len(suggestions) < max_suggestions THEN
                LET s2 == Append(suggestions, <<reg[k][1], reg[k][2], kind>>)
                IN  IF Len(s2) >= max_suggestions
                    THEN Prefix(s2, max_suggestions)
                    ELSE ScanFrom(base_name, tld, reg, max_suggestions, k + 1, checked + 1, s2)
            ELSE ScanFrom(base_name, tld, reg, max_suggestions, k + 1, checked + 1, suggestions)

find_similar_domains(domain, reg, max_suggestions) ==
    LET parts == Split(Lower(domain))
    IN  IF Len(parts) < 2 THEN << >>
        ELSE ScanFrom(Join(AllButLast(parts)), parts[Len(parts)], reg,
                      max_suggestions, 1, 0, << >>)


-----------------------------------------------------------------------------
(* socket.inet_aton, for strings whose numbers are decimal                 *)

Digits == {"0", "1", "2", "3", "4", "5", "6", "7", "8", "9"}

DigitValue(c) ==
    CASE c = "0" -> 0 [] c = "1" -> 1 [] c = "2" -> 2 [] c = "3" -> 3 [] c = "4" -> 4
      [] c = "5" -> 5 [] c = "6" -> 6 [] c = "7" -> 7 [] c = "8" -> 8 [] OTHER -> 9

RECURSIVE DecValue(_)
DecValue(part) ==
    IF Len(part) = 0 THEN 0
    ELSE 10 * DecValue(AllButLast(part)) + DigitValue(part[Len(part)])

IsNumber(part) == Len(part) > 0 /\ \A i \in 1..Len(part) : part[i] \in Digits

\* the text up to the first blank: inet_aton stops reading there
RECURSIVE UpToBlank(_)
UpToBlank(s) ==
    IF Len(s) = 0 \/ s[1] = " " THEN << >>
    ELSE <<s[1]>> \o UpToBlank(Tail(s))

RECURSIVE Pow256(_)
Pow256(n) == IF n = 0 THEN 1 ELSE 256 * Pow256(n - 1)

\* TRUE iff socket.inet_aton(ip) returns, FALSE iff it raises OSError:
\* one to four numbers, the last one filling the remaining bytes
inet_aton(ip) ==
    LET parts == Split(UpToBlank(ip))
        n     == Len(parts)
    IN  /\ n \in 1..4
        /\ \A i \in 1..n : IsNumber(parts[i])
        /\ \A i \in 1..(n - 1) : DecValue(parts[i]) <= 255
        /\ DecValue(parts[n]) < Pow256(5 - n)

-----------------------------------------------------------------------------
(* resolve_domain                                                          *)

GETHOSTBYNAME  == "gethostbyname"
GETADDRINFO    == "getaddrinfo"
DNS_GOOGLE     == "dns 8.8.8.8"
DNS_CLOUDFLARE == "dns 1.1.1.1"
RETRY          == "gethostbyname, timeout * 1.5"

Backends == {GETHOSTBYNAME, GETADDRINFO, DNS_GOOGLE, DNS_CLOUDFLARE, RETRY}

RetryThreshold == 2

\* the address a backend gives when it answers: the system resolver and the
\* public resolvers need not agree
BackendAnswer(b) ==
    IF b \in {DNS_GOOGLE, DNS_CLOUDFLARE} THEN ip_9_9_9_9 ELSE ip_5_6_7_8

\* the public resolvers asked before getaddrinfo
BackendChain_DnsFirst(t, dns) ==
    << GETHOSTBYNAME >>
    \o (IF dns THEN << DNS_GOOGLE, DNS_CLOUDFLARE >> ELSE << >>)
    \o << GETADDRINFO >>
    \o (IF t > RetryThreshold THEN << RETRY >> ELSE << >>)

\* a chain that ends with the extended retry whatever the timeout
BackendChain_AlwaysRetry(t, dns) ==
    << GETHOSTBYNAME, GETADDRINFO >>
    \o (IF dns THEN << DNS_GOOGLE, DNS_CLOUDFLARE >> ELSE << >>)
    \o << RETRY >>

\* the backends resolve_domain reaches when every one of them fails, in order
BackendChain(t, dns) ==
    << GETHOSTBYNAME, GETADDRINFO >>
    \o (IF dns THEN << DNS_GOOGLE, DNS_CLOUDFLARE >> ELSE << >>)
    \o (IF t > RetryThreshold THEN << RETRY >> ELSE << >>)

\* try the chain from backend k on; `answering` is the set of backends that
\* answer this call, every other one raises gaierror, timeout or OSError
\* (or gives an empty answer), which the except clauses swallow alike
RECURSIVE TryFrom(_, _, _, _)
TryFrom(chain, k, answering, called) ==
    IF k > Len(chain) THEN [ip |-> None, called |-> called]
    ELSE IF chain[k] \in answering
         THEN [ip |-> BackendAnswer(chain[k]), called |-> Append(called, chain[k])]
         ELSE TryFrom(chain, k + 1, answering, Append(called, chain[k]))

\* socket.setdefaulttimeout as the call leaves it, in half seconds
TimeoutLeft(t, called) ==
    IF \E k \in 1..Len(called) : called[k] = RETRY THEN 3 * t ELSE 2 * t

resolve_domain(domain, t, dns, answering) ==
    LET r == TryFrom(BackendChain(t, dns), 1, answering, << >>)
    IN  [domain |-> domain, timeout |-> t, ip |-> r.ip, called |-> r.called,
         default_timeout |-> TimeoutLeft(t, r.called)]

-----------------------------------------------------------------------------
(* try_domain_variants                                                     *)

common_tlds ==
    << <<"c","o","m">>, <<"n","e","t">>, <<"o","r","g">>, <<"r","u">>, <<"i","o">>,
       <<"c","o">>, <<"i","n","f","o">>, <<"t","o","p">>, <<"x","y","z">>,
       <<"s","i","t","e">> >>

VariantTimeout == 1

RECURSIVE TldVariants(_, _, _)
TldVariants(base_name, original_tld, k) ==
    IF k > Len(common_tlds) THEN << >>
    ELSE IF common_tlds[k] = original_tld THEN TldVariants(base_name, original_tld, k + 1)
    ELSE << base_name \o <<".">> \o common_tlds[k] >>
         \o TldVariants(base_name, original_tld, k + 1)

\* the names try_domain_variants looks up, in order, when every lookup fails
VariantTargets(domain) ==
    LET parts == Split(domain)
    IN  IF Len(parts) < 2 THEN << >>
        ELSE TldVariants(Join(AllButLast(parts)), parts[Len(parts)], 1)
             \o (IF Len(parts) > 2
                 THEN << parts[Len(parts) - 1] \o <<".">> \o parts[Len(parts)] >>
                 ELSE << >>)

-----------------------------------------------------------------------------
(* resolve_domain_wrapper                                                  *)

WrapperMaxSuggestions == 3
WrapperArity == 5

\* a loop that takes the first suggestion as it comes
FirstValid_Unchecked(similar, k) ==
    IF k > Len(similar) THEN None ELSE similar[k][2]

\* the for loop over `similar`: the first suggestion inet_aton accepts
RECURSIVE FirstValid(_, _)
FirstValid(similar, k) ==
    IF k > Len(similar) THEN None
    ELSE IF inet_aton(similar[k][2]) THEN similar[k][2]
    ELSE FirstValid(similar, k + 1)

NoCall == [index |-> 0, stage |-> "none", domain |-> None, timeout |-> 0, ip |-> None,
           called |-> << >>, answering |-> {}]

Frame(pc) ==
    [pc |-> pc, domain |-> None, timeout |-> 0, index |-> 0, ip |-> None,
     successful_copy |-> << >>, similar |-> << >>, k |-> 1, stages |-> {}, loaded |-> 0]

Pending == [state |-> "pending", exception |-> NoException, result |-> None]

Indices == 1..Len(future)

Running == {i \in Indices : future[i].state = "running"}

\* a pool that starts a thread for every work item
StartGuard_Unbounded(i) ==
    /\ future[i].state = "pending"
    /\ \A j \in 1..(i - 1) : future[j].state # "pending"

\* a worker thread of the pool takes the oldest queued work item
StartGuard(i) ==
    /\ future[i].state = "pending"
    /\ \A j \in 1..(i - 1) : future[j].state # "pending"
    /\ Cardinality(Running) < max_workers

Start(i) ==
    /\ StartGuard(i)
    /\ future' = [future EXCEPT ![i].state = "running"]
    /\ task' = [task EXCEPT ![i] = Frame("unpack")]
    /\ last_call' = NoCall
    /\ UNCHANGED << has_dnspython, progress_counter, progress_lock, default_timeout,
                    domains, timeout, max_workers, successful_domains, successful_lock,
                    domain_args, results_dict, main, history, find, use_similar_fallback, cli, call >>

\* line 276: the tuple is unpacked into five names
Unpack(i) ==
    /\ task[i].pc = "unpack"
    /\ IF Len(domain_args[i]) = WrapperArity
       THEN /\ task' = [task EXCEPT ![i] =
                  [Frame("direct") EXCEPT !.domain = domain_args[i][1],
                                          !.timeout = domain_args[i][2],
                                          !.index = domain_args[i][3]]]
            /\ future' = future
       ELSE /\ task' = [task EXCEPT ![i] = Frame("done")]
            /\ future' = [future EXCEPT ![i] =
                  [state |-> "finished", exception |-> "ValueError", result |-> None]]
    /\ last_call' = NoCall
    /\ UNCHANGED << has_dnspython, progress_counter, progress_lock, default_timeout,
                    domains, timeout, max_workers, successful_domains, successful_lock,
                    domain_args, results_dict, main, history, find, use_similar_fallback, cli, call >>

\* what the network may do to one call: no backend of the chain answers, or
\* backend k is the first that does; the backends after it are never asked, and
\* here they would all answer
Answerings(t, dns) ==
    LET chain == BackendChain(t, dns)
    IN  { { chain[j] : j \in k..Len(chain) } : k \in 1..(Len(chain) + 1) }

CallRecord(i, stage, r, answering) ==
    [index |-> i, stage |-> stage, domain |-> r.domain, timeout |-> r.timeout,
     ip |-> r.ip, called |-> r.called, answering |-> answering]

\* a wrapper that copies the registry whatever the direct lookup gave
AfterDirect_Always(ip) == "snapshot_acquire"

\* line 282: if not ip
AfterDirect(ip) == IF ip # None THEN "counters_acquire" ELSE "snapshot_acquire"

\* line 279
Direct(i) ==
    /\ task[i].pc = "direct"
    /\ \E answering \in Answerings(task[i].timeout, has_dnspython) :
         LET r == resolve_domain(task[i].domain, task[i].timeout, has_dnspython, answering)
         IN  /\ task' = [task EXCEPT ![i].ip = r.ip,
                            ![i].stages = @ \cup {"direct"},
                            ![i].pc = AfterDirect(r.ip)]
             /\ default_timeout' = r.default_timeout
             /\ last_call' = CallRecord(i, "direct", r, answering)
    /\ UNCHANGED << has_dnspython, progress_counter, progress_lock,
                    domains, timeout, max_workers, successful_domains, successful_lock,
                    domain_args, future, results_dict, main, history, find, use_similar_fallback, cli, call >>

\* a lock that lets every thread in
CanAcquire_Always(lock) == TRUE

\* threading.Lock: a thread enters a with block only when no thread holds the lock
CanAcquire(lock) == lock = Free

\* line 284: with successful_lock
SnapshotAcquire(i) ==
    /\ task[i].pc = "snapshot_acquire"
    /\ CanAcquire(successful_lock)
    /\ successful_lock' = Worker(i)
    /\ task' = [task EXCEPT ![i].pc = "snapshot_copy"]
    /\ last_call' = NoCall
    /\ UNCHANGED << has_dnspython, progress_counter, progress_lock, default_timeout,
                    domains, timeout, max_workers, successful_domains,
                    domain_args, future, results_dict, main, history, find, use_similar_fallback, cli, call >>

\* a copy that empties the dict it copies
RegistryAfterCopy_Drained(reg) == << >>

\* line 286: dict(successful_domains) leaves the registry as it is
RegistryAfterCopy(reg) == reg

\* a with block that keeps the lock when it ends
AfterWith_StillHeld(holder) == holder

\* lines 284-286: the with block ends after the copy and releases the lock
AfterWith(holder) == Free

\* line 286 and the end of the with block
SnapshotCopy(i) ==
    /\ task[i].pc = "snapshot_copy"
    /\ successful_lock = Worker(i)
    /\ successful_lock' = AfterWith(successful_lock)
    /\ successful_domains' = RegistryAfterCopy(successful_domains)
    /\ task' = [task EXCEPT ![i].successful_copy = successful_domains,
                            ![i].pc = "heuristic"]
    /\ last_call' = NoCall
    /\ UNCHANGED << has_dnspython, progress_counter, progress_lock, default_timeout,
                    domains, timeout, max_workers,
                    domain_args, future, results_dict, main, history, find, use_similar_fallback, cli, call >>

\* lines 289-300
Heuristic(i) ==
    /\ task[i].pc = "heuristic"
    /\ LET similar == find_similar_domains(task[i].domain, task[i].successful_copy,
                                           WrapperMaxSuggestions)
           ip      == FirstValid(similar, 1)
       IN  task' = [task EXCEPT ![i].similar = similar, ![i].ip = ip,
                       ![i].stages = @ \cup {"heuristic"},
                       ![i].k = 1,
                       ![i].pc = IF ip # None THEN "counters_acquire" ELSE "variants"]
    /\ last_call' = NoCall
    /\ UNCHANGED << has_dnspython, progress_counter, progress_lock, default_timeout,
                    domains, timeout, max_workers, successful_domains, successful_lock,
                    domain_args, future, results_dict, main, history, find, use_similar_fallback, cli, call >>

\* line 304: try_domain_variants, one lookup per step
Variant(i) ==
    /\ task[i].pc = "variants"
    /\ LET targets == VariantTargets(task[i].domain)
       IN  IF task[i].k > Len(targets)
           THEN /\ task' = [task EXCEPT ![i].stages = @ \cup {"probe"},
                               ![i].k = 1,
                               ![i].pc = "counters_acquire"]
                /\ default_timeout' = default_timeout
                /\ last_call' = NoCall
           ELSE \E answering \in Answerings(VariantTimeout, has_dnspython) :
                  LET r == resolve_domain(targets[task[i].k], VariantTimeout,
                                          has_dnspython, answering)
                  IN  /\ task' = [task EXCEPT ![i].ip = r.ip,
                                     ![i].stages = @ \cup {"probe"},
                                     ![i].k = IF r.ip # None THEN 1 ELSE @ + 1,
                                     ![i].pc = IF r.ip # None THEN "counters_acquire"
                                               ELSE "variants"]
                      /\ default_timeout' = r.default_timeout
                      /\ last_call' = CallRecord(i, "probe", r, answering)
    /\ UNCHANGED << has_dnspython, progress_counter, progress_lock,
                    domains, timeout, max_workers, successful_domains, successful_lock,
                    domain_args, future, results_dict, main, history, find, use_similar_fallback, cli, call >>

\* line 307: with progress_lock
CountersAcquire(i) ==
    /\ task[i].pc = "counters_acquire"
    /\ CanAcquire(progress_lock)
    /\ progress_lock' = Worker(i)
    /\ task' = [task EXCEPT ![i].pc = "total_load"]
    /\ last_call' = NoCall
    /\ UNCHANGED << has_dnspython, progress_counter, default_timeout,
                    domains, timeout, max_workers, successful_domains, successful_lock,
                    domain_args, future, results_dict, main, history, find, use_similar_fallback, cli, call >>

\* line 309: the counter the task's outcome goes to
OutcomeKey(ip) == IF ip # None THEN "success" ELSE "failed"

\* line 308 and lines 310 / 312: progress_counter[key] += 1 reads the entry ...
CountersLoad(i) ==
    /\ task[i].pc \in {"total_load", "outcome_load"}
    /\ LET key == IF task[i].pc = "total_load" THEN "total" ELSE OutcomeKey(task[i].ip)
       IN  task' = [task EXCEPT ![i].loaded = progress_counter[key],
                                ![i].pc = IF task[i].pc = "total_load"
                                          THEN "total_store" ELSE "outcome_store"]
    /\ last_call' = NoCall
    /\ UNCHANGED << has_dnspython, progress_counter, progress_lock, default_timeout,
                    domains, timeout, max_workers, successful_domains, successful_lock,
                    domain_args, future, results_dict, main, history, find, use_similar_fallback, cli, call >>

\* a counter update that leaves its with block without giving the lock back
AfterCounters_StillHeld(holder) == holder

\* lines 307-312: the with block ends after the outcome counter and releases
\* progress_lock
AfterCounters(holder) == Free

\* ... and writes it back one larger; the with block ends after lines 310 / 312
CountersStore(i) ==
    /\ task[i].pc \in {"total_store", "outcome_store"}
    /\ LET key == IF task[i].pc = "total_store" THEN "total" ELSE OutcomeKey(task[i].ip)
       IN  progress_counter' = [progress_counter EXCEPT ![key] = task[i].loaded + 1]
    /\ progress_lock' = IF task[i].pc = "outcome_store"
                       THEN AfterCounters(progress_lock) ELSE progress_lock
    /\ task' = [task EXCEPT ![i].loaded = 0,
                            ![i].pc = IF task[i].pc = "total_store"
                                      THEN "outcome_load" ELSE "return"]
    /\ last_call' = NoCall
    /\ UNCHANGED << has_dnspython, default_timeout,
                    domains, timeout, max_workers, successful_domains, successful_lock,
                    domain_args, future, results_dict, main, history, find, use_similar_fallback, cli, call >>

\* line 314: the future gets its result and the worker thread is free again
Return(i) ==
    /\ task[i].pc = "return"
    /\ future' = [future EXCEPT ![i] =
          [state |-> "finished", exception |-> NoException,
           result |-> << task[i].domain, task[i].ip, task[i].index >>]]
    /\ task' = [task EXCEPT ![i] = Frame("done")]
    /\ last_call' = NoCall
    /\ UNCHANGED << has_dnspython, progress_counter, progress_lock, default_timeout,
                    domains, timeout, max_workers, successful_domains, successful_lock,
                    domain_args, results_dict, main, history, find, use_similar_fallback, cli, call >>


-----------------------------------------------------------------------------
(* resolve_domains                                                         *)

ZeroCounters == [success |-> 0, failed |-> 0, total |-> 0]

MainFrame(pc) ==
    [pc |-> pc, yielded |-> {}, completed |-> 0, last_print |-> 0, exception |-> NoException]

EmptyDict == [j \in {} |-> None]

total == Len(domains)

print_interval == Max(1, total \div 100)

\* line 356: the argument tuple of task i (Python counts the index from 0)
TaskArgs(i) == << domains[i], timeout, i - 1, "successful_domains" >>

\* line 346: with progress_lock
ResetAcquire ==
    /\ main.pc = "reset"
    /\ CanAcquire(progress_lock)
    /\ progress_lock' = MainThread
    /\ main' = [main EXCEPT !.pc = "reset_locked"]
    /\ last_call' = NoCall
    /\ UNCHANGED << has_dnspython, progress_counter, default_timeout,
                    domains, timeout, max_workers, successful_domains, successful_lock,
                    domain_args, future, task, results_dict, history, find, use_similar_fallback, cli, call >>

\* lines 347-349 and the end of the with block
ResetCounters ==
    /\ main.pc = "reset_locked"
    /\ progress_lock = MainThread
    /\ progress_counter' = ZeroCounters
    /\ progress_lock' = Free
    /\ main' = [main EXCEPT !.pc = "prepare"]
    /\ last_call' = NoCall
    /\ UNCHANGED << has_dnspython, default_timeout,
                    domains, timeout, max_workers, successful_domains, successful_lock,
                    domain_args, future, task, results_dict, history, find, use_similar_fallback, cli, call >>

\* lines 352-363: the registry, the argument tuples, results_dict, the executor
Prepare ==
    /\ main.pc = "prepare"
    /\ successful_domains' = << >>
    /\ domain_args' = [i \in 1..total |-> TaskArgs(i)]
    /\ results_dict' = EmptyDict
    /\ future' = << >>
    /\ task' = << >>
    /\ main' = MainFrame("submit")
    /\ last_call' = NoCall
    /\ UNCHANGED << has_dnspython, progress_counter, progress_lock, default_timeout,
                    domains, timeout, max_workers, successful_lock, history, find, use_similar_fallback, cli, call >>

\* lines 365-368: executor.submit for the next argument tuple
Submit ==
    /\ main.pc = "submit"
    /\ IF Len(future) < total
       THEN /\ future' = Append(future, Pending)
            /\ task' = Append(task, Frame("queued"))
            /\ main' = main
       ELSE /\ main' = [main EXCEPT !.pc = "collect"]
            /\ UNCHANGED << future, task >>
    /\ last_call' = NoCall
    /\ UNCHANGED << has_dnspython, progress_counter, progress_lock, default_timeout,
                    domains, timeout, max_workers, successful_domains, successful_lock,
                    domain_args, results_dict, history, find, use_similar_fallback, cli, call >>

\* lines 402-408: as_completed yields a finished future, future.result() gives
\* the task's tuple or raises what the task raised
Collect(i) ==
    /\ main.pc = "collect"
    /\ i \notin main.yielded
    /\ future[i].state = "finished"
    /\ IF future[i].exception # NoException
       THEN /\ main' = [main EXCEPT !.pc = "unwind", !.yielded = @ \cup {i},
                                    !.exception = future[i].exception]
            /\ results_dict' = results_dict
       ELSE /\ results_dict' =
                 (future[i].result[3] :> << future[i].result[1], future[i].result[2] >>)
                 @@ results_dict
            /\ main' = [main EXCEPT
                 !.yielded = @ \cup {i},
                 !.completed = @ + 1,
                 !.pc = IF (main.completed + 1) - main.last_print >= print_interval
                           \/ main.completed + 1 = total
                        THEN "progress_acquire" ELSE "collect"]
    /\ last_call' = NoCall
    /\ UNCHANGED << has_dnspython, progress_counter, progress_lock, default_timeout,
                    domains, timeout, max_workers, successful_domains, successful_lock,
                    domain_args, future, task, history, find, use_similar_fallback, cli, call >>

\* line 411: with progress_lock
ProgressAcquire ==
    /\ main.pc = "progress_acquire"
    /\ CanAcquire(progress_lock)
    /\ progress_lock' = MainThread
    /\ main' = [main EXCEPT !.pc = "progress_read"]
    /\ last_call' = NoCall
    /\ UNCHANGED << has_dnspython, progress_counter, default_timeout,
                    domains, timeout, max_workers, successful_domains, successful_lock,
                    domain_args, future, task, results_dict, history, find, use_similar_fallback, cli, call >>

\* lines 412-420: the counters are read and printed
ProgressRead ==
    /\ main.pc = "progress_read"
    /\ progress_lock = MainThread
    /\ progress_lock' = Free
    /\ main' = [main EXCEPT !.pc = "collect", !.last_print = main.completed]
    /\ last_call' = NoCall
    /\ UNCHANGED << has_dnspython, progress_counter, default_timeout,
                    domains, timeout, max_workers, successful_domains, successful_lock,
                    domain_args, future, task, results_dict, history, find, use_similar_fallback, cli, call >>

\* line 425: [results_dict[i] for i in range(total)]
Results == [i \in 1..total |-> results_dict[i - 1]]

\* lines 422-431: the loop is over, the executor shuts down, the list is built
ReturnResults ==
    /\ main.pc = "collect"
    /\ main.yielded = Indices
    /\ IF \A i \in 1..total : (i - 1) \in DOMAIN results_dict
       THEN history' = Append(history, [outcome |-> "returned", results |-> Results])
       ELSE history' = Append(history, [outcome |-> "KeyError", results |-> None])
    /\ main' = [main EXCEPT !.pc = "done"]
    /\ last_call' = NoCall
    /\ UNCHANGED << has_dnspython, progress_counter, progress_lock, default_timeout,
                    domains, timeout, max_workers, successful_domains, successful_lock,
                    domain_args, future, task, results_dict, find, use_similar_fallback, cli, call >>

\* line 363: an exception leaves the with block; the executor's shutdown waits
\* for every submitted task, then the exception leaves resolve_domains
Unwind ==
    /\ main.pc = "unwind"
    /\ \A i \in Indices : future[i].state = "finished"
    /\ history' = Append(history, [outcome |-> main.exception, results |-> None])
    /\ main' = [main EXCEPT !.pc = "done"]
    /\ last_call' = NoCall
    /\ UNCHANGED << has_dnspython, progress_counter, progress_lock, default_timeout,
                    domains, timeout, max_workers, successful_domains, successful_lock,
                    domain_args, future, task, results_dict, find, use_similar_fallback, cli, call >>

\* the caller resolves the same list once more
CallAgain ==
    /\ main.pc = "done"
    /\ Len(history) < MaxRuns
    /\ main' = MainFrame("reset")
    /\ last_call' = NoCall
    /\ UNCHANGED << has_dnspython, progress_counter, progress_lock, default_timeout,
                    domains, timeout, max_workers, successful_domains, successful_lock,
                    domain_args, future, task, results_dict, history, find, use_similar_fallback, cli, call >>

-----------------------------------------------------------------------------
(* The inputs                                                              *)

\* the sequences without repetition over S, of length at most n
InjSeqs(S, n) ==
    UNION { { s \in [1..m -> S] : \A a, b \in 1..m : a # b => s[a] # s[b] } : m \in 0..n }

BatchDomains == { shop_com, shop_net, a_shop_net, localhost }

Timeouts == { 2, 3 }

IdleFind == [pc |-> "idle", domain |-> None, successful_domains |-> << >>,
             max_suggestions |-> 0, result |-> << >>]

IdleMain == [pc |-> "idle"]

-----------------------------------------------------------------------------
(* Spec: resolve_domains as the source has it                              *)

Init ==
    /\ has_dnspython \in BOOLEAN
    /\ progress_counter = ZeroCounters
    /\ progress_lock = Free
    /\ default_timeout = NoTimeout
    /\ domains \in InjSeqs(BatchDomains, MaxDomains)
    /\ timeout \in Timeouts
    /\ max_workers \in 1..MaxWorkers
    /\ successful_domains = << >>
    /\ successful_lock = Free
    /\ domain_args = << >>
    /\ future = << >>
    /\ task = << >>
    /\ results_dict = EmptyDict
    /\ main = MainFrame("reset")
    /\ history = << >>
    /\ last_call = NoCall
    /\ find = IdleFind
    /\ use_similar_fallback \in BOOLEAN
    /\ cli = IdleMain
    /\ call = << >>

Next ==
    \/ ResetAcquire
    \/ ResetCounters
    \/ Prepare
    \/ Submit
    \/ \E i \in Indices : Start(i)
    \/ \E i \in Indices : Unpack(i)
    \/ \E i \in Indices : Collect(i)
    \/ ReturnResults
    \/ Unwind
    \/ CallAgain

Spec == Init /\ [][Next]_vars

-----------------------------------------------------------------------------
(* SpecWrapper: the pool and the collecting loop over argument tuples of   *)
(* the type resolve_domain_wrapper declares, Tuple[str, int, int, dict,    *)
(* Lock], with a registry the caller filled                                *)

WrapperDomains == << shop_net, a_shop_net, localhost >>

\* every run of MaxTasks consecutive ones
WrapperLists ==
    { [i \in 1..MaxTasks |-> WrapperDomains[r + i - 1]] :
        r \in 1..(Len(WrapperDomains) - MaxTasks + 1) }

PoolSizes == { 1, 2 }

Registries ==
    { << >>,
      << <<shop_com, ip_1_2_3_4>> >>,
      << <<shopa_com, ip_999_1_1_1>>, <<SHOP_ORG, ip_127_1>> >>,
      << <<shop_com, ip_999_1_1_1>>, <<eshop_com, ip_1_2_3_4_x>> >> }

WrapperArgs(d, t, i) == << d, t, i - 1, "successful_domains", "successful_lock" >>

InitWrapper ==
    /\ has_dnspython \in BOOLEAN
    /\ progress_counter = ZeroCounters
    /\ progress_lock = Free
    /\ default_timeout = NoTimeout
    /\ domains \in WrapperLists
    /\ timeout \in Timeouts
    /\ max_workers \in PoolSizes
    /\ successful_domains \in Registries
    /\ successful_lock = Free
    /\ domain_args = [i \in 1..Len(domains) |-> WrapperArgs(domains[i], timeout, i)]
    /\ future = [i \in 1..Len(domains) |-> Pending]
    /\ task = [i \in 1..Len(domains) |-> Frame("queued")]
    /\ results_dict = EmptyDict
    /\ main = MainFrame("collect")
    /\ history = << >>
    /\ last_call = NoCall
    /\ find = IdleFind
    /\ use_similar_fallback \in BOOLEAN
    /\ cli = IdleMain
    /\ call = << >>

NextWrapper ==
    \/ \E i \in Indices : Start(i)
    \/ \E i \in Indices : Unpack(i)
    \/ \E i \in Indices : Direct(i)
    \/ \E i \in Indices : SnapshotAcquire(i)
    \/ \E i \in Indices : SnapshotCopy(i)
    \/ \E i \in Indices : Heuristic(i)
    \/ \E i \in Indices : Variant(i)
    \/ \E i \in Indices : CountersAcquire(i)
    \/ \E i \in Indices : CountersLoad(i)
    \/ \E i \in Indices : CountersStore(i)
    \/ \E i \in Indices : Return(i)
    \/ \E i \in Indices : Collect(i)
    \/ ProgressAcquire
    \/ ProgressRead
    \/ ReturnResults

SpecWrapper == InitWrapper /\ [][NextWrapper]_vars

-----------------------------------------------------------------------------
(* SpecFind: find_similar_domains on bounded inputs                        *)

FindDomains == { shop_net, a_shop_net, localhost }

RegistryDomains ==
    { shop_com, SHOP_ORG, shopa_com, shopb_com, shops_com, eshop_com, localhost, shop_net }

\* the address the registry of SpecFind holds for a domain
RegistryIp(d) == IF d \in { shop_com, shopa_com } THEN ip_1_2_3_4 ELSE ip_5_6_7_8

InitFind ==
    /\ has_dnspython = FALSE
    /\ progress_counter = ZeroCounters
    /\ progress_lock = Free
    /\ default_timeout = NoTimeout
    /\ domains = << >>
    /\ timeout = 3
    /\ max_workers = 1
    /\ successful_domains = << >>
    /\ successful_lock = Free
    /\ domain_args = << >>
    /\ future = << >>
    /\ task = << >>
    /\ results_dict = EmptyDict
    /\ main = MainFrame("idle")
    /\ history = << >>
    /\ last_call = NoCall
    /\ use_similar_fallback = TRUE
    /\ cli = IdleMain
    /\ call = << >>
    /\ \E d \in FindDomains, m \in 1..MaxSuggestionsArg,
          keys \in InjSeqs(RegistryDomains, MaxRegistry) :
         find = [pc |-> "call", domain |-> d,
                 successful_domains |-> [k \in 1..Len(keys) |-> << keys[k], RegistryIp(keys[k]) >>],
                 max_suggestions |-> m, result |-> << >>]

FindCall ==
    /\ find.pc = "call"
    /\ find' = [find EXCEPT
          !.result = find_similar_domains(find.domain, find.successful_domains,
                                          find.max_suggestions),
          !.pc = "returned"]
    /\ last_call' = NoCall
    /\ UNCHANGED << has_dnspython, progress_counter, progress_lock, default_timeout,
                    domains, timeout, max_workers, successful_domains, successful_lock,
                    domain_args, future, task, results_dict, main, history,
                    use_similar_fallback, cli, call >>

NextFind == FindCall

SpecFind == InitFind /\ [][NextFind]_vars


-----------------------------------------------------------------------------
(* main: the removal of duplicates, lines 617-627                          *)

\* line 622: the key a domain is remembered by
SeenKey_AsIs(domain) == domain

SeenKey(domain) == Lower(domain)

\* the for loop of lines 621-625, from entry k on
RECURSIVE DedupFrom(_, _, _, _)
DedupFrom(doms, k, seen, unique_domains) ==
    IF k > Len(doms) THEN unique_domains
    ELSE LET domain_lower == SeenKey(doms[k])
         IN  IF domain_lower \notin seen
             THEN DedupFrom(doms, k + 1, seen \cup {domain_lower},
                            Append(unique_domains, doms[k]))
             ELSE DedupFrom(doms, k + 1, seen, unique_domains)

unique_domains(doms) == DedupFrom(doms, 1, {}, << >>)

\* lines 617-628
MainDedup ==
    /\ cli.pc = "dedup"
    /\ cli' = [cli EXCEPT !.pc = "deduped",
                          !.original_count = Len(cli.domains),
                          !.domains = unique_domains(cli.domains),
                          !.duplicates_count = Len(cli.domains) - Len(unique_domains(cli.domains))]
    /\ last_call' = NoCall
    /\ UNCHANGED << has_dnspython, progress_counter, progress_lock, default_timeout,
                    domains, timeout, max_workers, successful_domains, successful_lock,
                    domain_args, future, task, results_dict, main, history, find,
                    use_similar_fallback, call >>

\* what read_domains may give main: main leaves at line 615 when it is empty
FileDomains == { shop_com, SHOP_COM, Shop_Com, shop_net, SHOP_ORG }

FileLists == UNION { [1..m -> FileDomains] : m \in 1..MaxInput }

InitDedup ==
    /\ has_dnspython = FALSE
    /\ progress_counter = ZeroCounters
    /\ progress_lock = Free
    /\ default_timeout = NoTimeout
    /\ domains = << >>
    /\ timeout = 3
    /\ max_workers = 1
    /\ successful_domains = << >>
    /\ successful_lock = Free
    /\ domain_args = << >>
    /\ future = << >>
    /\ task = << >>
    /\ results_dict = EmptyDict
    /\ main = MainFrame("idle")
    /\ history = << >>
    /\ last_call = NoCall
    /\ find = IdleFind
    /\ use_similar_fallback = TRUE
    /\ call = << >>
    /\ \E file \in FileLists :
         cli = [pc |-> "dedup", file |-> file, domains |-> file,
                original_count |-> 0, duplicates_count |-> 0]

NextDedup == MainDedup

SpecDedup == InitDedup /\ [][NextDedup]_vars

-----------------------------------------------------------------------------
(* main: the choice of timeout and pool size, lines 635-673, and the choice *)
(* of the pool size in resolve_domains, lines 320-330.  The list is        *)
(* modelled by its length; timeouts are counted in tenths of a second.     *)

\* lines 639-650
MainSettings(total_domains) ==
    IF total_domains < 100 THEN [timeout |-> 50, max_workers |-> 10]
    ELSE IF total_domains < 1000 THEN [timeout |-> 30, max_workers |-> 30]
    ELSE IF total_domains < 10000 THEN [timeout |-> 30, max_workers |-> 50]
    ELSE [timeout |-> 20, max_workers |-> 100]

\* line 653: the size above which main asks for other settings
CustomAbove == 10000

\* line 657; "cyr_de" and "cyr_a" stand for the Cyrillic letters de and a
YesAnswers == { <<"y">>, <<"y","e","s">>, <<"cyr_de">>, <<"cyr_de","cyr_a">> }

\* a Python float: not a number, or a number of tenths
Num(tenths) == [nan |-> FALSE, tenths |-> tenths]
NaN == [nan |-> TRUE, tenths |-> 0]

\* Python's a < b: False as soon as one side is not a number
Less(a, b) == ~a.nan /\ ~b.nan /\ a.tenths < b.tenths

\* Python's min(a, b) and max(a, b): a unless b is smaller / larger
PyMin(a, b) == IF Less(b, a) THEN b ELSE a
PyMax(a, b) == IF Less(a, b) THEN b ELSE a

\* the text without its sign
Unsigned(text) ==
    IF Len(text) > 0 /\ text[1] \in {"+", "-"} THEN Tail(text) ELSE text

Sign(text) == IF Len(text) > 0 /\ text[1] = "-" THEN 0 - 1 ELSE 1

\* int(text) returns, for texts of signs, digits, dots and letters
IsIntLiteral(text) == IsNumber(Unsigned(text))

IntValue(text) == Sign(text) * DecValue(Unsigned(text))

\* float(text) returns, for texts of signs, digits, dots and letters with at
\* most one digit after the dot
IsFloatLiteral(text) ==
    LET body  == Unsigned(text)
        parts == Split(body)
    IN  \/ body = <<"n","a","n">>
        \/ Len(parts) = 1 /\ IsNumber(parts[1])
        \/ /\ Len(parts) = 2
           /\ parts[1] # << >> \/ parts[2] # << >>
           /\ parts[1] = << >> \/ IsNumber(parts[1])
           /\ parts[2] = << >> \/ (IsNumber(parts[2]) /\ Len(parts[2]) = 1)

FloatValue(text) ==
    LET body  == Unsigned(text)
        parts == Split(body)
    IN  IF body = <<"n","a","n">> THEN NaN
        ELSE Num(Sign(text) * (10 * DecValue(parts[1])
                               + (IF Len(parts) = 2 THEN DecValue(parts[2]) ELSE 0)))

\* line 662
ClampWorkers(n) == Max(1, Min(n, 200))

\* line 667
ClampTimeout(t) == PyMax(Num(10), PyMin(t, Num(100)))

\* lines 658-669: the try block, for the two texts typed
CustomSettings(settings, workers_input, timeout_input) ==
    LET after_workers ==
            IF workers_input = << >> THEN [raised |-> FALSE, settings |-> settings]
            ELSE IF IsIntLiteral(workers_input)
            THEN [raised |-> FALSE,
                  settings |-> [settings EXCEPT
                                  !.max_workers = ClampWorkers(IntValue(workers_input))]]
            ELSE [raised |-> TRUE, settings |-> settings]
    IN  IF after_workers.raised \/ timeout_input = << >> THEN after_workers.settings
        ELSE IF IsFloatLiteral(timeout_input)
        THEN [after_workers.settings EXCEPT
                !.timeout = ClampTimeout(FloatValue(timeout_input)).tenths]
        ELSE after_workers.settings

\* lines 322-330: max_workers as resolve_domains uses it; the caller gave
\* None or a number
NoneGiven == [none |-> TRUE, value |-> 0]
Given(v) == [none |-> FALSE, value |-> v]

PoolSize(max_workers_arg, total_domains) ==
    IF max_workers_arg.none
    THEN IF total_domains < 100 THEN 10
         ELSE IF total_domains < 1000 THEN 30
         ELSE 50
    ELSE max_workers_arg.value

\* lines 636-650
MainSizing ==
    /\ cli.pc = "sizing"
    /\ LET settings == MainSettings(cli.total_domains)
       IN  cli' = [cli EXCEPT !.timeout = settings.timeout,
                              !.max_workers = Given(settings.max_workers),
                              !.pc = IF cli.total_domains > CustomAbove
                                     THEN "custom" ELSE "call"]
    /\ last_call' = NoCall
    /\ UNCHANGED << has_dnspython, progress_counter, progress_lock, default_timeout,
                    domains, timeout, max_workers, successful_domains, successful_lock,
                    domain_args, future, task, results_dict, main, history, find,
                    use_similar_fallback, call >>

WorkerTexts ==
    { << >>, <<"0">>, <<"7">>, <<"2","0","1">>, <<"-","3">>, <<"a","b","c">>, <<"2",".","5">> }

TimeoutTexts ==
    { << >>, <<"0",".","5">>, <<"4">>, <<"1","1">>, <<"a","b","c">>, <<"n","a","n">> }

CustomTexts == { << >>, <<"n">>, <<"y">>, <<"cyr_de","cyr_a">> }

\* lines 653-669
MainCustom ==
    /\ cli.pc = "custom"
    /\ \E custom \in CustomTexts, workers_input \in WorkerTexts, timeout_input \in TimeoutTexts :
         LET settings == [timeout |-> cli.timeout, max_workers |-> cli.max_workers.value]
             chosen   == IF custom \in YesAnswers
                         THEN CustomSettings(settings, workers_input, timeout_input)
                         ELSE settings
         IN  cli' = [cli EXCEPT !.timeout = chosen.timeout,
                                !.max_workers = Given(chosen.max_workers),
                                !.custom = custom,
                                !.workers_input = IF custom \in YesAnswers
                                                  THEN workers_input ELSE << >>,
                                !.timeout_input = IF custom \in YesAnswers
                                                     /\ (workers_input = << >>
                                                         \/ IsIntLiteral(workers_input))
                                                  THEN timeout_input ELSE << >>,
                                !.pc = "call"]
    /\ last_call' = NoCall
    /\ UNCHANGED << has_dnspython, progress_counter, progress_lock, default_timeout,
                    domains, timeout, max_workers, successful_domains, successful_lock,
                    domain_args, future, task, results_dict, main, history, find,
                    use_similar_fallback, call >>

\* lines 672 and 320-333: resolve_domains is entered and settles its pool size
EnterResolveDomains ==
    /\ cli.pc = "call"
    /\ cli' = [cli EXCEPT !.pool = PoolSize(cli.max_workers, cli.total_domains),
                          !.pc = "resolving"]
    /\ last_call' = NoCall
    /\ UNCHANGED << has_dnspython, progress_counter, progress_lock, default_timeout,
                    domains, timeout, max_workers, successful_domains, successful_lock,
                    domain_args, future, task, results_dict, main, history, find,
                    use_similar_fallback, call >>

\* the lengths of the lists: around every threshold of the two choices
BatchSizes == { 1, 99, 100, 999, 1000, 9999, 10000, 10001 }

\* main() starts the choice for the list it read, or another caller calls
\* resolve_domains with its own timeout and with max_workers None or a number
SizingStarts ==
    { [pc |-> "sizing", caller |-> "main", total_domains |-> n, timeout |-> 0,
       max_workers |-> NoneGiven, custom |-> << >>, workers_input |-> << >>,
       timeout_input |-> << >>, pool |-> 0] : n \in BatchSizes }
    \cup
    { [pc |-> "call", caller |-> "direct", total_domains |-> n, timeout |-> t,
       max_workers |-> w, custom |-> << >>, workers_input |-> << >>,
       timeout_input |-> << >>, pool |-> 0] :
         n \in BatchSizes \cup {0}, t \in {20, 30, 50}, w \in {NoneGiven, Given(1), Given(50)} }

InitSizing ==
    /\ has_dnspython = FALSE
    /\ progress_counter = ZeroCounters
    /\ progress_lock = Free
    /\ default_timeout = NoTimeout
    /\ domains = << >>
    /\ timeout = 3
    /\ max_workers = 1
    /\ successful_domains = << >>
    /\ successful_lock = Free
    /\ domain_args = << >>
    /\ future = << >>
    /\ task = << >>
    /\ results_dict = EmptyDict
    /\ main = MainFrame("idle")
    /\ history = << >>
    /\ last_call = NoCall
    /\ find = IdleFind
    /\ use_similar_fallback = TRUE
    /\ call = << >>
    /\ cli \in SizingStarts

NextSizing ==
    \/ MainSizing
    \/ MainCustom
    \/ EnterResolveDomains

SpecSizing == InitSizing /\ [][NextSizing]_vars

-----------------------------------------------------------------------------
(* SpecTimeout: resolve_domain run line by line by several worker threads  *)
(* at once, each in a call made at line 279 (the batch timeout) or at      *)
(* lines 254 / 265 (timeout 1)                                             *)

\* the backends that run under the socket default timeout; the dnspython
\* resolvers carry their own (lines 137-138, 150-151)
UsesDefaultTimeout(b) == b \in {GETHOSTBYNAME, GETADDRINFO, RETRY}

\* lines 118, 126, 166: the timeout the call asks for, in half seconds
WantedTimeout(b, t) == IF b = RETRY THEN 3 * t ELSE 2 * t

CallFrame(t) ==
    [pc |-> "set", timeout |-> t, k |-> 1, wanted |-> NoTimeout,
     effective |-> NoTimeout, ip |-> None]

\* where a call goes on when backend k - 1 has failed
NextBackendPc(chain, k) ==
    IF k > Len(chain) THEN "returned"
    ELSE IF UsesDefaultTimeout(chain[k]) THEN "set" ELSE "lookup"

\* lines 118, 126, 166: socket.setdefaulttimeout
SetDefaultTimeout(i) ==
    /\ call[i].pc = "set"
    /\ LET chain == BackendChain(call[i].timeout, has_dnspython)
           wanted == WantedTimeout(chain[call[i].k], call[i].timeout)
       IN  /\ default_timeout' = wanted
           /\ call' = [call EXCEPT ![i].wanted = wanted, ![i].pc = "lookup"]
    /\ last_call' = NoCall
    /\ UNCHANGED << has_dnspython, progress_counter, progress_lock,
                    domains, timeout, max_workers, successful_domains, successful_lock,
                    domain_args, future, task, results_dict, main, history, find,
                    use_similar_fallback, cli >>

\* lines 119, 127, 142, 155, 167: the lookup, under the timeout in force when
\* it is made; it answers or it fails
Lookup(i) ==
    /\ call[i].pc = "lookup"
    /\ LET chain == BackendChain(call[i].timeout, has_dnspython)
           b     == chain[call[i].k]
           own   == WantedTimeout(b, call[i].timeout)
       IN  \E answers \in BOOLEAN :
             call' = [call EXCEPT
                 ![i].wanted = own,
                 ![i].effective = IF UsesDefaultTimeout(b) THEN default_timeout ELSE own,
                 ![i].ip = IF answers THEN BackendAnswer(b) ELSE None,
                 ![i].k = IF answers THEN @ ELSE @ + 1,
                 ![i].pc = IF answers THEN "returned"
                           ELSE NextBackendPc(chain, call[i].k + 1)]
    /\ last_call' = NoCall
    /\ UNCHANGED << has_dnspython, progress_counter, progress_lock, default_timeout,
                    domains, timeout, max_workers, successful_domains, successful_lock,
                    domain_args, future, task, results_dict, main, history, find,
                    use_similar_fallback, cli >>

\* the timeouts of the calls: the batch's, or the prober's
CallTimeouts == Timeouts \cup { VariantTimeout }

InitTimeout ==
    /\ has_dnspython \in BOOLEAN
    /\ progress_counter = ZeroCounters
    /\ progress_lock = Free
    /\ default_timeout = NoTimeout
    /\ domains = << >>
    /\ timeout = 3
    /\ max_workers = MaxTasks
    /\ successful_domains = << >>
    /\ successful_lock = Free
    /\ domain_args = << >>
    /\ future = << >>
    /\ task = << >>
    /\ results_dict = EmptyDict
    /\ main = MainFrame("idle")
    /\ history = << >>
    /\ last_call = NoCall
    /\ find = IdleFind
    /\ use_similar_fallback = TRUE
    /\ cli = IdleMain
    /\ \E ts \in [1..MaxTasks -> CallTimeouts] :
         call = [i \in 1..MaxTasks |-> CallFrame(ts[i])]

NextTimeout ==
    \/ \E i \in 1..Len(call) : SetDefaultTimeout(i)
    \/ \E i \in 1..Len(call) : Lookup(i)

SpecTimeout == InitTimeout /\ [][NextTimeout]_vars

-----------------------------------------------------------------------------
(* Fair scheduling: the thread of resolve_domains and every worker thread  *)
(* go on whenever they can; every resolver call returns (Direct and        *)
(* Variant always have a next state)                                       *)

\* the steps of the thread that runs resolve_domains, from its call to its end;
\* whether the caller calls again is the caller's choice
MainStep ==
    \/ ResetAcquire
    \/ ResetCounters
    \/ Prepare
    \/ Submit
    \/ \E i \in Indices : Collect(i)
    \/ ProgressAcquire
    \/ ProgressRead
    \/ ReturnResults
    \/ Unwind

\* the steps of the worker thread that runs task i
TaskStep(i) ==
    /\ i \in Indices
    /\ \/ Start(i)
       \/ Unpack(i)
       \/ Direct(i)
       \/ SnapshotAcquire(i)
       \/ SnapshotCopy(i)
       \/ Heuristic(i)
       \/ Variant(i)
       \/ CountersAcquire(i)
       \/ CountersLoad(i)
       \/ CountersStore(i)
       \/ Return(i)

Fairness ==
    /\ WF_vars(MainStep)
    /\ \A i \in 1..Max(MaxDomains, MaxTasks) : WF_vars(TaskStep(i))

\* resolve_domains as the source has it, fairly scheduled
SpecLive == Spec /\ Fairness

-----------------------------------------------------------------------------
(* resolve_domain and try_domain_variants called on their own: one frame,  *)
(* which is either a call resolve_domain(domain, timeout) about to be made *)
(* (pc "direct") or a call try_domain_variants(domain, timeout) at the top *)
(* of its loop (pc "variants"). read_domains keeps the casing of a name,   *)
(* so a name in capitals is an input the prober gets.                      *)

ProbeDomains == { localhost, shop_net, a_shop_net, SHOP_ORG }

ProbeTimeouts == { 1, 2, 3, 5 }

ProbeFrame(pc, d, t) ==
    [Frame(pc) EXCEPT !.domain = d, !.timeout = t]

InitProbe ==
    /\ has_dnspython \in BOOLEAN
    /\ progress_counter = ZeroCounters
    /\ progress_lock = Free
    /\ default_timeout = NoTimeout
    /\ \E d \in ProbeDomains : domains = << d >>
    /\ timeout \in ProbeTimeouts
    /\ max_workers = 1
    /\ successful_domains = << >>
    /\ successful_lock = Free
    /\ domain_args = << >>
    /\ future = << [Pending EXCEPT !.state = "running"] >>
    /\ \E pc \in {"direct", "variants"} : task = << ProbeFrame(pc, domains[1], timeout) >>
    /\ results_dict = EmptyDict
    /\ main = MainFrame("idle")
    /\ history = << >>
    /\ last_call = NoCall
    /\ find = IdleFind
    /\ use_similar_fallback = TRUE
    /\ cli = IdleMain
    /\ call = << >>

NextProbe ==
    \/ \E i \in Indices : Direct(i)
    \/ \E i \in Indices : Variant(i)

SpecProbe == InitProbe /\ [][NextProbe]_vars

-----------------------------------------------------------------------------
(* The claims                                                              *)

Finished == 1..Len(history)

InTail(f) ==
    f.pc \in {"counters_acquire", "total_load", "total_store", "outcome_load",
              "outcome_store", "return"}

\* C1: every call of resolve_domains returns a list as long as its input whose
\* i-th element is the result for the i-th input domain
C1_IndexFidelity ==
    \A h \in Finished :
        /\ history[h].outcome = "returned"
        /\ Len(history[h].results) = Len(domains)
        /\ \A i \in 1..Len(domains) : history[h].results[i][1] = domains[i]

\* C2: no exception raised inside a task leaves resolve_domains: the collecting
\* loop never unwinds with a task's exception and no call ends with one
C2_NoTaskExceptionEscapes ==
    /\ main.exception = NoException
    /\ \A h \in Finished : history[h].outcome \notin {"ValueError"}

\* C3: when the batch is over, success + failed = total = number of domains
C3_CountersAtCompletion ==
    main.pc = "done" =>
        /\ progress_counter.success + progress_counter.failed = progress_counter.total
        /\ progress_counter.total = Len(domains)

\* C4: a task that has returned an address for its domain has left the entry
\* domain -> address in the shared registry
C4_ResolvedIsRegistered ==
    \A i \in Indices :
        (future[i].state = "finished" /\ future[i].exception = NoException
         /\ future[i].result[2] # None)
        => \E k \in 1..Len(successful_domains) :
               successful_domains[k] = << future[i].result[1], future[i].result[2] >>

UniqueKeys(reg) ==
    \A a, b \in 1..Len(reg) : a # b => reg[a][1] # reg[b][1]

\* C5: no step removes a registry entry or changes the address stored for a
\* domain, and no domain is ever stored twice
C5_RegistryMonotone ==
    [][ /\ \A k \in 1..Len(successful_domains) :
             \E m \in 1..Len(successful_domains') :
                 successful_domains'[m] = successful_domains[k]
        /\ UniqueKeys(successful_domains') ]_vars

\* C5 witness: a task has copied a registry that holds entries, and they are
\* still there
C5_Witness ==
    \E i \in Indices :
        /\ task[i].pc = "heuristic"
        /\ Len(task[i].successful_copy) >= 2
        /\ successful_domains = task[i].successful_copy

\* C6: never more than max_workers tasks are running
C6_BoundedConcurrency == Cardinality(Running) <= max_workers

\* C6 witness: the pool is full while a submitted task waits
C6_Witness ==
    /\ Cardinality(Running) = max_workers
    /\ \E i \in Indices : future[i].state = "pending"

\* the order the claim gives the backends
ClaimedOrder == << GETHOSTBYNAME, GETADDRINFO, DNS_GOOGLE, DNS_CLOUDFLARE, RETRY >>

\* the backends of ClaimedOrder a call with this timeout may use
ClaimedFor(t) ==
    LET Usable(b) == \/ b \in {GETHOSTBYNAME, GETADDRINFO}
                     \/ b \in {DNS_GOOGLE, DNS_CLOUDFLARE} /\ has_dnspython
                     \/ b = RETRY /\ t > 2
    IN  SelectSeq(ClaimedOrder, Usable)

C7_Call ==
    last_call.index # 0 =>
        LET order == ClaimedFor(last_call.timeout)
            hits  == { k \in 1..Len(order) : order[k] \in last_call.answering }
        IN  IF hits = {}
            THEN last_call.ip = None /\ last_call.called = order
            ELSE LET first == CHOOSE k \in hits : \A m \in hits : k <= m
                 IN  /\ last_call.called = SubSeq(order, 1, first)
                     /\ last_call.ip = BackendAnswer(order[first])

C7_DirectHit ==
    (last_call.stage = "direct" /\ last_call.ip # None) =>
        /\ task[last_call.index].pc = "counters_acquire"
        /\ task[last_call.index].ip = last_call.ip
        /\ task[last_call.index].stages = {"direct"}

C7_DirectStays ==
    \A i \in Indices :
        (InTail(task[i]) /\ task[i].stages = {"direct"}) =>
            \/ InTail(task'[i]) /\ task'[i].stages = {"direct"} /\ task'[i].ip = task[i].ip
            \/ task'[i].pc = "done" /\ future'[i].result[2] = task[i].ip

\* C7: every resolve_domain call asks the backends in the claimed order and
\* stops at the first that answers, giving its address; a task whose direct call
\* got an address runs no heuristic and no probe and reports that address
C7_FallbackOrdering == [](C7_Call /\ C7_DirectHit) /\ [][C7_DirectStays]_vars

\* C7 witness: the primary backend failed, getaddrinfo answered
C7_Witness ==
    /\ last_call.stage = "direct"
    /\ last_call.called = << GETHOSTBYNAME, GETADDRINFO >>
    /\ last_call.ip # None

\* the failing domain has two labels or more, and the snapshot holds a domain
\* with the same base name and another TLD
HasDifferentTld(domain, reg) ==
    LET parts == Split(Lower(domain))
    IN  /\ Len(parts) >= 2
        /\ \E k \in 1..Len(reg) :
             LET sp == Split(Lower(reg[k][1]))
             IN  /\ Len(sp) >= 2
                 /\ AllButLast(sp) = AllButLast(parts)
                 /\ sp[Len(sp)] # parts[Len(parts)]

\* C8, for the max_suggestions the wrapper passes: when the snapshot holds a
\* domain with the same base name and another TLD, the first suggestion is a
\* 'different TLD' one
C8_DifferentTldFirst ==
    (/\ find.pc = "returned"
     /\ find.max_suggestions = WrapperMaxSuggestions
     /\ HasDifferentTld(find.domain, find.successful_domains))
    => /\ Len(find.result) >= 1
       /\ find.result[1][3] = DIFFERENT_TLD

\* C9: two calls of resolve_domains on the same list give the same list
C9_SameOutputTwice ==
    Len(history) >= 2 =>
        /\ history[1].outcome = "returned"
        /\ history[2].outcome = "returned"
        /\ history[1].results = history[2].results

\* a dotted quad: four decimal numbers of one to three digits, each at most 255
IsDottedQuad(ip) ==
    LET parts == Split(ip)
    IN  /\ Len(parts) = 4
        /\ \A i \in 1..4 : /\ IsNumber(parts[i])
                           /\ Len(parts[i]) <= 3
                           /\ DecValue(parts[i]) <= 255

\* C10: every address a task reports is a dotted quad
C10_ReportedIpIsValid ==
    \A i \in Indices :
        (future[i].state = "finished" /\ future[i].exception = NoException
         /\ future[i].result[2] # None)
        => IsDottedQuad(future[i].result[2])


\* the positions of the file's list that hold the first domain of their class
\* of domains equal ignoring case
FirstOccurrences(file) ==
    { k \in 1..Len(file) : \A j \in 1..(k - 1) : Lower(file[j]) # Lower(file[k]) }

\* C11: the list handed on holds no two domains equal ignoring case, holds
\* exactly the first occurrence of every class with its own casing, in the
\* order of the input, and removing duplicates from it once more changes nothing
C11_DedupFirstOccurrences ==
    cli.pc = "deduped" =>
        LET P == FirstOccurrences(cli.file)
        IN  /\ \A a, b \in 1..Len(cli.domains) :
                   a # b => Lower(cli.domains[a]) # Lower(cli.domains[b])
            /\ Len(cli.domains) = Cardinality(P)
            /\ \A k \in P :
                   cli.domains[Cardinality({ j \in P : j <= k })] = cli.file[k]
            /\ unique_domains(cli.domains) = cli.domains

\* C11 witness: the shape of [a.example.com, A.EXAMPLE.COM, b.test]
C11_Witness ==
    /\ cli.pc = "deduped"
    /\ cli.file = << shop_com, SHOP_COM, shop_net >>
    /\ cli.domains = << shop_com, shop_net >>


\* C12: in a call with use_similar_fallback = False no task runs the
\* similar-domain heuristic or the variant prober, and a task whose direct
\* lookup found nothing reports no address
C12_FlagDisablesFallback ==
    ~use_similar_fallback =>
        \A i \in Indices :
            /\ task[i].stages \subseteq {"direct"}
            /\ task[i].pc \notin {"heuristic", "variants"}


\* the pool size the claim gives a batch of n domains
ClaimedWorkers(n) ==
    IF n < 100 THEN 10 ELSE IF n < 1000 THEN 30 ELSE IF n < 10000 THEN 50 ELSE 100

\* C13: a pool size the caller did not supply is 10, 30, 50 or 100 by the
\* batch size, in main (before the user is asked) and in resolve_domains
\* when max_workers is None
C13_WorkerCountBySize ==
    /\ (cli.pc \in {"custom", "call", "resolving"} /\ cli.caller = "main"
        /\ cli.workers_input = << >>)
       => cli.max_workers = Given(ClaimedWorkers(cli.total_domains))
    /\ (cli.pc = "resolving" /\ cli.max_workers.none)
       => cli.pool = ClaimedWorkers(cli.total_domains)


\* the task has gone through its attempts: RESOLVED if it holds an address,
\* FAILED if it holds none
Settled(f) == InTail(f) \/ f.pc = "done"

C14_State ==
    \A i \in Indices :
        /\ (task[i].pc \in {"snapshot_acquire", "snapshot_copy", "heuristic"})
           => (task[i].stages = {"direct"} /\ task[i].ip = None)
        /\ (task[i].pc = "variants")
           => (task[i].stages \in {{"direct", "heuristic"}, {"direct", "heuristic", "probe"}}
               /\ task[i].ip = None)
        /\ (InTail(task[i]) /\ task[i].ip = None)
           => task[i].stages = {"direct", "heuristic", "probe"}
        /\ (task[i].pc \in {"queued", "unpack", "direct"}) => task[i].stages = {}

C14_Step ==
    \A i \in Indices :
        \* an attempt starts only from the attempt before it, with no address yet
        /\ ("heuristic" \in task'[i].stages /\ "heuristic" \notin task[i].stages)
           => (task[i].stages = {"direct"} /\ task[i].ip = None)
        /\ ("probe" \in task'[i].stages /\ "probe" \notin task[i].stages)
           => (task[i].stages = {"direct", "heuristic"} /\ task[i].ip = None)
        /\ ("direct" \in task'[i].stages /\ "direct" \notin task[i].stages)
           => task[i].stages = {}
        \* FAILED only when the prober has returned None
        /\ (~Settled(task[i]) /\ Settled(task'[i]) /\ task'[i].ip = None
            /\ future'[i].exception = NoException)
           => (task[i].pc = "variants"
               /\ task[i].k > Len(VariantTargets(task[i].domain)))
        \* RESOLVED and FAILED are absorbing
        /\ Settled(task[i])
           => /\ Settled(task'[i])
              /\ InTail(task'[i]) => (task'[i].ip = task[i].ip
                                      /\ task'[i].stages = task[i].stages)

\* C14: a task runs the heuristic only after its direct lookup gave nothing,
\* the prober only after direct lookup and heuristic gave nothing, fails only
\* when the prober returned nothing, and once resolved or failed runs no attempt
C14_TaskStateMachine == []C14_State /\ [][C14_Step]_vars

\* C14 witness: a task failed after the three attempts, another was resolved by
\* its direct lookup
C14_Witness ==
    \E i, j \in Indices :
        /\ task[i].pc = "return" /\ task[i].ip = None
        /\ task[i].stages = {"direct", "heuristic", "probe"}
        /\ task[j].pc = "return" /\ task[j].ip # None /\ task[j].stages = {"direct"}


\* the tasks that have passed their counter update, and the address each holds
Counted == { i \in Indices : task[i].pc = "return"
                             \/ (future[i].state = "finished"
                                 /\ future[i].exception = NoException) }

OutcomeOf(i) == IF task[i].pc = "return" THEN task[i].ip ELSE future[i].result[2]

C15_State ==
    progress_lock = Free =>
        /\ progress_counter.total = Cardinality(Counted)
        /\ progress_counter.success = Cardinality({ i \in Counted : OutcomeOf(i) # None })
        /\ progress_counter.failed = Cardinality({ i \in Counted : OutcomeOf(i) = None })
        /\ progress_counter.success + progress_counter.failed = progress_counter.total

C15_Step ==
    progress_counter' # progress_counter =>
        \E i \in Indices :
            /\ progress_lock = Worker(i)
            /\ task[i].pc \in {"total_store", "outcome_store"}
            /\ \A j \in Indices \ {i} : task'[j] = task[j]

\* C15: whenever progress_lock is free, total is the number of tasks that have
\* passed their counter update, success the number of them that hold an address
\* and failed the number that hold none; the counters change only in a step of
\* the task that holds progress_lock
C15_CountersAtomic == []C15_State /\ [][C15_Step]_vars

\* C15 witness: two tasks have passed the update, one resolved and one failed
C15_Witness ==
    /\ progress_lock = Free
    /\ progress_counter = [success |-> 1, failed |-> 1, total |-> 2]
    /\ Cardinality(Counted) = 2


\* C16: the timeout in force at every lookup of a call is the one this call
\* asked for: no other worker has changed it in between
C16_TimeoutIsOwn ==
    \A i \in 1..Len(call) :
        call[i].effective \in { NoTimeout, call[i].wanted }


\* the task is inside resolve_domain, find_similar_domains or
\* try_domain_variants, or about to enter one of them
InLookupOrScan(f) == f.pc \in {"direct", "heuristic", "variants"}

C17_State ==
    \A i \in Indices :
        /\ InLookupOrScan(task[i]) => successful_lock # Worker(i)
        /\ successful_lock = Worker(i) => task[i].pc = "snapshot_copy"

C17_Step ==
    \A i \in Indices :
        \* the copy is taken with the lock held and is the registry of that moment
        /\ task'[i].successful_copy # task[i].successful_copy
           => \/ (successful_lock = Worker(i)
                  /\ task'[i].successful_copy = successful_domains)
              \/ task'[i].pc = "done"
        \* a lookup or a scan is a step of a task that does not hold the lock,
        \* and it scans the task's copy
        /\ (InLookupOrScan(task[i]) /\ task'[i] # task[i])
           => (successful_lock # Worker(i) /\ successful_lock' # Worker(i))
        /\ (task[i].pc = "heuristic" /\ task'[i].pc # "heuristic")
           => task'[i].similar = find_similar_domains(task[i].domain,
                                     task[i].successful_copy, WrapperMaxSuggestions)

\* C17: the scan works on a copy of the registry taken with the registry lock
\* held, and no task holds the registry lock while it is in resolve_domain,
\* find_similar_domains or try_domain_variants
C17_SnapshotOutsideLock == []C17_State /\ [][C17_Step]_vars

\* C17 witness: a task scans its copy or probes variants while another task
\* holds the registry lock for its own copy
C17_Witness ==
    \E i, j \in Indices :
        /\ i # j
        /\ task[i].pc \in {"heuristic", "variants"}
        /\ Len(task[i].successful_copy) >= 1
        /\ successful_lock = Worker(j)


\* every task of the batch has gone through its attempts and its result is in
\* results_dict, and resolve_domains has returned the list
BatchCompleted ==
    /\ main.pc = "done"
    /\ \A i \in Indices : future[i].state = "finished" /\ future[i].exception = NoException
    /\ \A i \in 1..Len(domains) : (i - 1) \in DOMAIN results_dict
    /\ Len(history) >= 1 /\ history[Len(history)].outcome = "returned"

\* C18: a batch whose tasks have been submitted eventually completes with
\* every task resolved or failed and every result collected
C18_Termination == (main.pc = "collect") ~> BatchCompleted


\* the priority the claim gives a reason: the smaller, the higher
Rank(reason) ==
    IF reason = DIFFERENT_TLD THEN 1 ELSE IF reason = SIMILAR_NAME THEN 2 ELSE 3

\* C19: the returned list holds at most max_suggestions candidates, all
\* 'different TLD' ones before all 'similar name' ones before all 'partial
\* match' ones
C19_PriorityOrder ==
    find.pc = "returned" =>
        /\ Len(find.result) <= find.max_suggestions
        /\ \A a, b \in 1..Len(find.result) :
               a < b => Rank(find.result[a][3]) <= Rank(find.result[b][3])


\* the suggestions whose address passes the validity check of line 296
ValidSuggestions(similar) == { k \in 1..Len(similar) : inet_aton(similar[k][2]) }

C20_Step ==
    \A i \in Indices :
        (task[i].pc = "heuristic" /\ task'[i].pc # "heuristic") =>
            LET similar == task'[i].similar
                valid   == ValidSuggestions(similar)
            IN  /\ future'[i] = future[i]
                /\ IF valid = {}
                   THEN task'[i].ip = None /\ task'[i].pc = "variants"
                   ELSE /\ task'[i].ip =
                             similar[CHOOSE k \in valid : \A m \in valid : k <= m][2]
                        /\ task'[i].pc = "counters_acquire"

RECURSIVE ClaimedTldVariants(_, _, _)
ClaimedTldVariants(base_name, original_tld, k) ==
    IF k > Len(common_tlds) THEN << >>
    ELSE IF Lower(common_tlds[k]) = Lower(original_tld)
         THEN ClaimedTldVariants(base_name, original_tld, k + 1)
    ELSE << base_name \o <<".">> \o common_tlds[k] >>
         \o ClaimedTldVariants(base_name, original_tld, k + 1)

ClaimedTargets(domain) ==
    LET labels == Split(domain)
    IN  IF Len(labels) < 2 THEN << >>
        ELSE ClaimedTldVariants(Join(AllButLast(labels)), labels[Len(labels)], 1)
             \o (IF Len(labels) > 2
                 THEN << labels[Len(labels) - 1] \o <<".">> \o labels[Len(labels)] >>
                 ELSE << >>)

C21_Step ==
    \A i \in Indices :
        (task[i].pc = "variants" /\ task'[i] # task[i]) =>
            LET claimed == ClaimedTargets(task[i].domain)
                k == task[i].k
            IN  IF last_call'.stage = "probe"
                THEN /\ k <= Len(claimed)
                     /\ last_call'.domain = claimed[k]
                     /\ IF last_call'.ip # None
                        THEN /\ task'[i].ip = last_call'.ip
                             /\ task'[i].pc = "counters_acquire"
                        ELSE /\ task'[i].pc = "variants"
                             /\ task'[i].k = k + 1
                ELSE /\ k = Len(claimed) + 1
                     /\ task'[i].ip = None
                     /\ task'[i].pc = "counters_acquire"

\* C21: the k-th lookup try_domain_variants makes, all earlier ones having
\* given nothing, is for the k-th of: base-name.TLD for com, net, org, ru, io,
\* co, info, top, xyz, site in that order without the domain's original TLD,
\* then the last two labels if the domain has more than two; a lookup that
\* gives an IP ends the prober with that IP; the prober ends with nothing only
\* after every one of those lookups gave nothing; a domain of fewer than two
\* labels gets no lookup
C21_ProberTargets == [][C21_Step]_vars

Retried(c) == \E k \in 1..Len(c.called) : c.called[k] = RETRY

\* the backends before the retry, as the claim numbers them (steps 1 to 3)
EarlierBackends ==
    << GETHOSTBYNAME, GETADDRINFO >>
    \o (IF has_dnspython THEN << DNS_GOOGLE, DNS_CLOUDFLARE >> ELSE << >>)

\* C22: a lookup makes the extended-timeout retry only as its last step, after
\* every earlier backend was asked and failed, and only when its timeout is
\* greater than 2; a lookup with timeout <= 2 never makes it; every lookup of
\* the prober has timeout 1, whatever timeout the prober was given, and so
\* never makes it
C22_RetryOnlyAboveThreshold ==
    last_call.index # 0 =>
        /\ Retried(last_call) =>
              /\ last_call.timeout > 2
              /\ last_call.called = EarlierBackends \o << RETRY >>
              /\ \A k \in 1..Len(EarlierBackends) : EarlierBackends[k] \notin last_call.answering
        /\ last_call.timeout <= 2 => ~Retried(last_call)
        /\ last_call.stage = "probe" =>
              /\ last_call.timeout = 1
              /\ ~Retried(last_call)

\* a lookup with timeout 3 that asked every earlier backend in vain and got
\* its address from the retry
C22_Witness ==
    /\ last_call.stage = "direct"
    /\ last_call.timeout = 3
    /\ has_dnspython
    /\ last_call.called = EarlierBackends \o << RETRY >>
    /\ last_call.ip # None

\* the call of resolve_domains that has just ended
LastRun == history[Len(history)]

Absent(results) == { i \in 1..Len(results) : results[i][2] = None }

Present(results) == { i \in 1..Len(results) : results[i][2] # None }

C23_State ==
    main.pc = "done" =>
        /\ LastRun.outcome = "returned"
        /\ Len(LastRun.results) = Len(domains)
        /\ Cardinality(Absent(LastRun.results)) = progress_counter.failed
        /\ Cardinality(Present(LastRun.results)) = progress_counter.success

C23_Step ==
    \A i \in Indices :
        (task[i].pc = "return" /\ future'[i].state = "finished") =>
            (future'[i].result[2] = None
             <=> (task[i].stages = {"direct", "heuristic", "probe"} /\ task[i].ip = None))

\* C23: a batch in which lookups fail still ends by returning its results: when
\* it is over, as many results have no IP as the failed counter says and as
\* many have one as the succeeded counter says, and a task's result has no IP
\* exactly when its direct lookup, the heuristic and the prober all gave nothing
C23_FailureIsReported == []C23_State /\ [][C23_Step]_vars

\* a text was typed that int() (workers) or float() (timeout) rejects
NonNumericEntry ==
    \/ (cli.workers_input # << >> /\ ~IsIntLiteral(cli.workers_input))
    \/ (cli.timeout_input # << >> /\ ~IsFloatLiteral(cli.timeout_input))

\* C24: whatever the user types, resolve_domains gets 1 <= max_workers <= 200
\* and 1 <= timeout <= 10 (seconds; the model counts tenths), and after a text
\* that is not a number it gets the size-based defaults for both settings
C24_ClampedNeverFatal ==
    (cli.caller = "main" /\ cli.pc \in {"call", "resolving"}) =>
        /\ ~cli.max_workers.none
        /\ 1 <= cli.max_workers.value /\ cli.max_workers.value <= 200
        /\ 10 <= cli.timeout /\ cli.timeout <= 100
        /\ NonNumericEntry =>
              /\ cli.timeout = MainSettings(cli.total_domains).timeout
              /\ cli.max_workers = Given(MainSettings(cli.total_domains).max_workers)

\* the threads of a batch: the collecting thread and one worker per task
Threads == {MainThread} \cup { Worker(i) : i \in Indices }

HeldBy(th) ==
    (IF successful_lock = th THEN {"successful_lock"} ELSE {})
    \cup (IF progress_lock = th THEN {"progress_lock"} ELSE {})

\* the thread is inside `with successful_lock` / `with progress_lock`
InRegistrySection(i) == task[i].pc = "snapshot_copy"

InCountersSection(i) ==
    task[i].pc \in {"total_load", "total_store", "outcome_load", "outcome_store"}

MainInProgressSection == main.pc \in {"reset_locked", "progress_read"}

\* the worker stands at a `with` whose lock another thread holds
BlockedOnLock(i) ==
    \/ (task[i].pc = "snapshot_acquire" /\ successful_lock # Free)
    \/ (task[i].pc = "counters_acquire" /\ progress_lock # Free)

Outstanding == { i \in Indices : future[i].state # "finished" }

C25_State ==
    \* no thread holds the two locks together
    /\ \A th \in Threads : Cardinality(HeldBy(th)) <= 1
    \* a lock is held exactly while its holder is inside the with block: it is
    \* released on every way out
    /\ \A i \in Indices :
          /\ successful_lock = Worker(i) <=> InRegistrySection(i)
          /\ progress_lock = Worker(i) <=> InCountersSection(i)
    /\ successful_lock # MainThread
    /\ progress_lock = MainThread <=> MainInProgressSection
    \* while tasks are outstanding some thread is not waiting for a lock: a
    \* running worker, a worker the pool can start, or the collector inside
    \* its own with block
    /\ Outstanding # {} =>
          \/ \E i \in Running : ~BlockedOnLock(i)
          \/ \E i \in Indices : StartGuard(i)
          \/ MainInProgressSection

C25_Step ==
    \A th \in Threads :
        \* a thread takes a lock only when the lock is free and it holds none
        /\ (successful_lock' = th /\ successful_lock # th)
           => (successful_lock = Free /\ HeldBy(th) = {})
        /\ (progress_lock' = th /\ progress_lock # th)
           => (progress_lock = Free /\ HeldBy(th) = {})
        \* and only the holder gives it up
        /\ (successful_lock = th /\ successful_lock' # th) => successful_lock' = Free
        /\ (progress_lock = th /\ progress_lock' # th) => progress_lock' = Free

\* C25: no worker and no collector holds the registry lock and progress_lock
\* together or takes one while holding the other; a lock is held only inside
\* its with block and is free again on leaving it; and while tasks are
\* outstanding the threads are never all waiting for a lock
C25_LocksDeadlockFree == []C25_State /\ [][C25_Step]_vars

\* C25 witness: both locks are held, by different threads, while a task is
\* outstanding: the collector reads the counters and a worker copies the
\* registry
C25_Witness ==
    \E i \in Indices :
        /\ progress_lock = MainThread
        /\ successful_lock = Worker(i)
        /\ i \in Outstanding

=============================================================================
